---------------------------- MODULE Spec2Model ----------------------------
(***************************************************************************)
(* A model of bib2txt (src/main.py): the author list formatter, the        *)
(* preprint detector, the entry renderer and the batch driver.             *)
(*                                                                         *)
(* Python strings are TLA+ strings, handled character by character with    *)
(* Len, SubSeq and \o.  A bibliography record (a dict) is a function from  *)
(* the set of its field names to strings, so that `field in entry` is      *)
(* field \in DOMAIN entry.  An optional value (None or a string) is a      *)
(* sequence of zero or one strings.                                        *)
(***************************************************************************)
EXTENDS Integers, Sequences, FiniteSets, TLC

VARIABLES
    pc,               \* position of the run
    entries,          \* bib_database.entries
    i,                \* 1-based index of the entry the for loop is at
    entry_text,       \* the pieces appended to entry_text in the last iteration
    plain_entries,    \* the list plain_entries
    result,           \* the joined text bibtex_to_plain returns
    stdout,           \* what has been printed
    outfile,          \* the --output file: <<>> while not opened, else <<text>>
    max_authors,      \* args.max_authors
    include_abstract, \* args.include_abstract
    include_url,      \* args.include_url
    sorting,          \* args.sorting
    output,           \* args.output: <<>> when not given, else <<path>>
    authors_str,      \* argument of a direct call of format_authors
    ret               \* value returned by a direct call

vars == <<pc, entries, i, entry_text, plain_entries, result, stdout, outfile,
          max_authors, include_abstract, include_url, sorting, output,
          authors_str, ret>>

-----------------------------------------------------------------------------
(* Python str operations *)

\* s[k] for a 1-based k
At(s, k) == SubSeq(s, k, k)

\* s[k:] for a 1-based k
From(s, k) == IF k > Len(s) THEN "" ELSE SubSeq(s, k, Len(s))

\* s.find(p) + 1: the first position of p in s, 0 when p does not occur
Find(s, p) ==
    LET I == {k \in 1..(Len(s) - Len(p) + 1) : SubSeq(s, k, k + Len(p) - 1) = p}
    IN IF I = {} THEN 0 ELSE CHOOSE k \in I : \A j \in I : k <= j

\* p in s
Contains(s, p) == Find(s, p) # 0

\* s.endswith(p)
EndsWith(s, p) == Len(p) <= Len(s) /\ From(s, Len(s) - Len(p) + 1) = p

\* s.split(sep)
RECURSIVE Split(_, _)
Split(s, sep) ==
    LET k == Find(s, sep)
    IN IF k = 0 THEN <<s>>
       ELSE <<SubSeq(s, 1, k - 1)>> \o Split(From(s, k + Len(sep)), sep)

\* s.replace(old, new)
RECURSIVE Replace(_, _, _)
Replace(s, old, new) ==
    LET k == Find(s, old)
    IN IF k = 0 THEN s
       ELSE SubSeq(s, 1, k - 1) \o new \o Replace(From(s, k + Len(old)), old, new)

IsSpace(c) == c \in {" ", "\t", "\n"}

RECURSIVE LStrip(_)
LStrip(s) == IF s # "" /\ IsSpace(At(s, 1)) THEN LStrip(From(s, 2)) ELSE s

RECURSIVE RStrip(_)
RStrip(s) ==
    IF s # "" /\ IsSpace(At(s, Len(s))) THEN RStrip(SubSeq(s, 1, Len(s) - 1)) ELSE s

\* s.strip()
Strip(s) == RStrip(LStrip(s))

\* sep.join(parts)
RECURSIVE Join(_, _)
Join(parts, sep) ==
    IF parts = <<>> THEN ""
    ELSE IF Len(parts) = 1 THEN parts[1]
    ELSE parts[1] \o sep \o Join(Tail(parts), sep)

UpperLetters == "ABCDEFGHIJKLMNOPQRSTUVWXYZ"
LowerLetters == "abcdefghijklmnopqrstuvwxyz"

\* the ASCII letters' other case, as two tables
ToLower == [c \in {SubSeq(UpperLetters, k, k) : k \in 1..26} |->
               LET k == CHOOSE k \in 1..26 : SubSeq(UpperLetters, k, k) = c
               IN SubSeq(LowerLetters, k, k)]

ToUpper == [c \in {SubSeq(LowerLetters, k, k) : k \in 1..26} |->
               LET k == CHOOSE k \in 1..26 : SubSeq(LowerLetters, k, k) = c
               IN SubSeq(UpperLetters, k, k)]

LowerChar(c) == IF c \in DOMAIN ToLower THEN ToLower[c] ELSE c

UpperChar(c) == IF c \in DOMAIN ToUpper THEN ToUpper[c] ELSE c

\* s.lower(), on ASCII text
RECURSIVE LowerFrom(_, _)
LowerFrom(s, k) ==
    IF k > Len(s) THEN "" ELSE LowerChar(SubSeq(s, k, k)) \o LowerFrom(s, k + 1)

Lower(s) == LowerFrom(s, 1)

\* s.capitalize(), on ASCII text
Capitalize(s) == IF s = "" THEN "" ELSE UpperChar(SubSeq(s, 1, 1)) \o LowerFrom(s, 2)

\* parts[:n], with Python's meaning of a negative n
PySlice(parts, n) ==
    IF n >= 0 THEN SubSeq(parts, 1, IF n < Len(parts) THEN n ELSE Len(parts))
    ELSE SubSeq(parts, 1, Len(parts) + n)

\* [x for x in parts if x]
RECURSIVE NonEmpty(_)
NonEmpty(parts) ==
    IF parts = <<>> THEN <<>>
    ELSE (IF parts[1] = "" THEN <<>> ELSE <<parts[1]>>) \o NonEmpty(Tail(parts))

\* [x.strip() for x in parts]
StripAll(parts) == [k \in 1..Len(parts) |-> Strip(parts[k])]

-----------------------------------------------------------------------------
(* clean_latex *)

\* LatexNodes2Text().latex_to_text of pylatexenc, as far as this model follows
\* it: the braces of a group are dropped and its content kept.
RECURSIVE latex_to_text(_)
latex_to_text(text) ==
    IF text = "" THEN ""
    ELSE (IF At(text, 1) \in {"{", "}"} THEN "" ELSE At(text, 1))
         \o latex_to_text(From(text, 2))

clean_latex(text) ==
    IF text = "" THEN "" ELSE Replace(latex_to_text(text), "--", "-")

-----------------------------------------------------------------------------
(* format_authors *)

format_authors_lt(str, max) ==
    IF str = "" THEN "Unknown Author"
    ELSE LET authors == NonEmpty(StripAll(Split(clean_latex(str), " and ")))
         IN IF authors = <<>> THEN "Unknown Author"
            ELSE IF Len(authors) < max THEN Join(authors, ", ")
            ELSE Join(PySlice(authors, max - 1), ", ") \o ", et al."

format_authors(str, max) ==
    IF str = "" THEN "Unknown Author"
    ELSE LET authors == NonEmpty(StripAll(Split(clean_latex(str), " and ")))
         IN IF authors = <<>> THEN "Unknown Author"
            ELSE IF Len(authors) <= max THEN Join(authors, ", ")
            ELSE Join(PySlice(authors, max - 1), ", ") \o ", et al."

-----------------------------------------------------------------------------
(* extract_arxiv_info *)

IsDigit(c) == c \in {"0", "1", "2", "3", "4", "5", "6", "7", "8", "9"}

\* the last position of the longest run of digits of s that starts at k
\* (k - 1 when s has no digit at k)
RECURSIVE DigitsEnd(_, _)
DigitsEnd(s, k) ==
    IF k <= Len(s) /\ IsDigit(At(s, k)) THEN DigitsEnd(s, k + 1) ELSE k - 1

\* the group of prefix(\d+\.\d+) matched at position k of s, <<>> when it does
\* not match there: \d+ is greedy, and no shorter run can be followed by "\."
MatchIdAt(s, prefix, k) ==
    LET a  == k + Len(prefix)
        e1 == DigitsEnd(s, a)
        e2 == DigitsEnd(s, e1 + 2)
    IN IF /\ a - 1 <= Len(s)
          /\ SubSeq(s, k, a - 1) = prefix
          /\ e1 >= a
          /\ e1 + 1 <= Len(s)
          /\ At(s, e1 + 1) = "."
          /\ e2 >= e1 + 2
       THEN <<SubSeq(s, a, e2)>>
       ELSE <<>>

\* re.search(prefix + r'(\d+\.\d+)', s, re.IGNORECASE): group 1 of the leftmost
\* match, <<>> when there is none
re_search(prefix, s) ==
    LET t == Lower(s)
        I == {k \in 1..Len(t) : MatchIdAt(t, prefix, k) # <<>>}
    IN IF I = {} THEN <<>>
       ELSE MatchIdAt(t, prefix, CHOOSE k \in I : \A j \in I : k <= j)

arxiv_fields == <<"journal", "note", "publisher", "howpublished", "url", "doi">>

patterns_without_abs == <<"arxiv:", "arxiv/">>

\* the three patterns, each followed by the group (\d+\.\d+)
patterns == <<"arxiv:", "arxiv/", "abs/">>

\* the inner loop over patterns: the first pattern that matches sets arxiv_id
RECURSIVE FirstPattern(_, _, _)
FirstPattern(field_text, k, arxiv_id) ==
    IF k > Len(patterns) THEN arxiv_id
    ELSE LET match == re_search(patterns[k], field_text)
         IN IF match # <<>> THEN match
            ELSE FirstPattern(field_text, k + 1, arxiv_id)

\* the loop over arxiv_fields from its k-th field on, <<is_preprint, arxiv_id>>
\* being the values of the two locals so far
RECURSIVE ScanFields(_, _, _, _)
ScanFields(entry, k, is_preprint, arxiv_id) ==
    IF k > Len(arxiv_fields) THEN <<is_preprint, arxiv_id>>
    ELSE LET field == arxiv_fields[k]
         IN IF field \in DOMAIN entry /\ entry[field] # ""
            THEN LET field_text == Lower(clean_latex(entry[field]))
                 IN IF Contains(field_text, "arxiv") \/ Contains(field_text, "preprint")
                    THEN ScanFields(entry, k + 1, TRUE,
                                    FirstPattern(field_text, 1, arxiv_id))
                    ELSE ScanFields(entry, k + 1, is_preprint, arxiv_id)
            ELSE ScanFields(entry, k + 1, is_preprint, arxiv_id)

extract_arxiv_info(entry) == ScanFields(entry, 1, FALSE, <<>>)

-----------------------------------------------------------------------------
(* format_version_info *)

format_version_info_bare(entry) ==
    IF "version" \in DOMAIN entry THEN entry["version"] ELSE ""

format_version_info(entry) ==
    IF "version" \in DOMAIN entry THEN "v" \o entry["version"] ELSE ""

-----------------------------------------------------------------------------
(* bibtex_to_plain: the pieces one iteration of its loop appends to entry_text *)

\* for field in fields: if field in entry: value = entry[field]; break
\* gives <<value>>, or <<>> when the loop ends without a break
RECURSIVE FirstPresent(_, _)
FirstPresent(entry, fields) ==
    IF fields = <<>> THEN <<>>
    ELSE IF fields[1] \in DOMAIN entry THEN <<entry[fields[1]]>>
    ELSE FirstPresent(entry, Tail(fields))

AuthorClause_institution_first(entry, max) ==
    IF "author" \in DOMAIN entry
    THEN format_authors(entry["author"], max) \o ". "
    ELSE IF "editor" \in DOMAIN entry
    THEN format_authors(entry["editor"], max) \o " (Eds.). "
    ELSE LET org == FirstPresent(entry, <<"institution", "organization", "publisher">>)
         IN IF org # <<>> /\ org[1] # ""
            THEN clean_latex(org[1]) \o ". "
            ELSE "Unknown Author. "

\* "Handle authors"
AuthorClause(entry, max) ==
    IF "author" \in DOMAIN entry
    THEN format_authors(entry["author"], max) \o ". "
    ELSE IF "editor" \in DOMAIN entry
    THEN format_authors(entry["editor"], max) \o " (Eds.). "
    ELSE LET org == FirstPresent(entry, <<"organization", "institution", "publisher">>)
         IN IF org # <<>> /\ org[1] # ""
            THEN clean_latex(org[1]) \o ". "
            ELSE "Unknown Author. "

\* "Add year"
YearClause(entry) ==
    IF "year" \in DOMAIN entry THEN "(" \o entry["year"] \o ") " ELSE "(Unknown Year) "

\* "Add title"
TitleClause(entry) ==
    IF "title" \in DOMAIN entry THEN clean_latex(entry["title"]) \o ". " ELSE "Untitled. "

\* a field's cleaned text as a sentence, nothing when the field is absent
Sentence(entry, field) ==
    IF field \in DOMAIN entry THEN clean_latex(entry[field]) \o ". " ELSE ""

ArticleBody(entry) ==
    IF "journal" \in DOMAIN entry
    THEN clean_latex(entry["journal"])
         \o (IF "volume" \in DOMAIN entry THEN ", " \o entry["volume"] ELSE "")
         \o (IF "number" \in DOMAIN entry THEN "(" \o entry["number"] \o ")" ELSE "")
         \o (IF "pages" \in DOMAIN entry THEN ", " \o entry["pages"] ELSE "")
         \o ". "
    ELSE ""

SoftwareBody(entry) ==
    LET version == format_version_info(entry)
    IN (IF version # "" THEN "[Software] " \o version \o ". " ELSE "[Software]. ")
       \o (IF "url" \in DOMAIN entry
           THEN "Available at: " \o clean_latex(entry["url"]) \o ". "
           ELSE IF "doi" \in DOMAIN entry
           THEN "DOI: " \o clean_latex(entry["doi"]) \o ". "
           ELSE "")
       \o Sentence(entry, "note")

OnlineBody(entry) ==
    "[Online]. "
    \o (IF "url" \in DOMAIN entry
        THEN "Available at: " \o clean_latex(entry["url"]) \o ". "
        ELSE "")
    \o Sentence(entry, "note")

FallbackBody_all_fields(entry, entry_type) ==
    "[" \o Capitalize(entry_type) \o "]. "
    \o Sentence(entry, "publisher") \o Sentence(entry, "institution")
    \o Sentence(entry, "organization") \o Sentence(entry, "howpublished")
    \o Sentence(entry, "note")

FallbackBody(entry, entry_type) ==
    LET info == FirstPresent(entry, <<"publisher", "institution", "organization",
                                      "howpublished", "note">>)
    IN "[" \o Capitalize(entry_type) \o "]. "
       \o (IF info # <<>> THEN clean_latex(info[1]) \o ". " ELSE "")

\* "Handle different entry types"; the entry has its ENTRYTYPE
BodyClause(entry) ==
    LET entry_type == Lower(entry["ENTRYTYPE"])
    IN IF entry_type = "article" THEN ArticleBody(entry)
       ELSE IF entry_type \in {"inproceedings", "conference", "proceedings"}
       THEN (IF "booktitle" \in DOMAIN entry
             THEN "In: " \o clean_latex(entry["booktitle"]) \o ". "
             ELSE "In: Unknown Proceedings. ")
       ELSE IF entry_type = "techreport"
       THEN (IF "institution" \in DOMAIN entry
             THEN "Technical Report, " \o clean_latex(entry["institution"]) \o ". "
             ELSE "Technical Report. ")
       ELSE IF entry_type = "unpublished"
       THEN (IF "note" \in DOMAIN entry
             THEN clean_latex(entry["note"]) \o ". "
             ELSE "Unpublished. ")
       ELSE IF entry_type \in {"book", "incollection"}
       THEN Sentence(entry, "publisher") \o Sentence(entry, "address")
       ELSE IF entry_type = "software" THEN SoftwareBody(entry)
       ELSE IF entry_type = "dataset"
       THEN "[Dataset]. " \o Sentence(entry, "publisher")
       ELSE IF entry_type = "online" THEN OnlineBody(entry)
       ELSE FallbackBody(entry, entry_type)

\* "Check if it's a preprint"
PreprintClause(entry) ==
    LET info == extract_arxiv_info(entry)
    IN IF info[1]
       THEN "[Preprint] " \o (IF info[2] # <<>> THEN "arXiv:" \o info[2][1] \o " " ELSE "")
       ELSE ""

\* "Add URL if requested and not already included"; text is entry_text so far
UrlClause(entry, incl_url, text) ==
    IF incl_url /\ ~Contains(text, "url")
    THEN IF "url" \in DOMAIN entry THEN "URL: " \o clean_latex(entry["url"]) \o " "
         ELSE IF "doi" \in DOMAIN entry THEN "DOI: " \o clean_latex(entry["doi"]) \o " "
         ELSE ""
    ELSE ""

\* "Add abstract if requested"
AbstractClause(entry, incl_abstract) ==
    IF incl_abstract /\ "abstract" \in DOMAIN entry
    THEN "Abstract: " \o clean_latex(entry["abstract"])
    ELSE ""

\* the seven pieces in the order they are appended: author, year, title, body,
\* preprint, URL, abstract
EntryPieces(entry, max, incl_abstract, incl_url) ==
    LET a == AuthorClause(entry, max)
        y == YearClause(entry)
        t == TitleClause(entry)
        b == BodyClause(entry)
        p == PreprintClause(entry)
        u == UrlClause(entry, incl_url, a \o y \o t \o b \o p)
    IN <<a, y, t, b, p, u, AbstractClause(entry, incl_abstract)>>

-----------------------------------------------------------------------------
(* the run: the loop of bibtex_to_plain, then the output of __main__ *)

\* RenderEntry with the paragraph put at the front of plain_entries
RenderEntry_insert_first ==
    /\ pc = "render"
    /\ i <= Len(entries)
    /\ "ENTRYTYPE" \in DOMAIN entries[i]
    /\ LET pieces == EntryPieces(entries[i], max_authors, include_abstract, include_url)
       IN /\ entry_text' = pieces
          /\ plain_entries' = <<Strip(Join(pieces, ""))>> \o plain_entries
    /\ i' = i + 1
    /\ UNCHANGED <<pc, entries, result, stdout, outfile, max_authors,
                   include_abstract, include_url, sorting, output, authors_str, ret>>

\* RenderEntry with each paragraph printed as soon as it is rendered
RenderEntry_print_each ==
    /\ pc = "render"
    /\ i <= Len(entries)
    /\ "ENTRYTYPE" \in DOMAIN entries[i]
    /\ LET pieces == EntryPieces(entries[i], max_authors, include_abstract, include_url)
       IN /\ entry_text' = pieces
          /\ plain_entries' = Append(plain_entries, Strip(Join(pieces, "")))
          /\ stdout' = Append(stdout, Strip(Join(pieces, "")))
    /\ i' = i + 1
    /\ UNCHANGED <<pc, entries, result, outfile, max_authors,
                   include_abstract, include_url, sorting, output, authors_str, ret>>

\* one iteration of the loop for an entry that has its ENTRYTYPE
RenderEntry ==
    /\ pc = "render"
    /\ i <= Len(entries)
    /\ "ENTRYTYPE" \in DOMAIN entries[i]
    /\ LET pieces == EntryPieces(entries[i], max_authors, include_abstract, include_url)
       IN /\ entry_text' = pieces
          /\ plain_entries' = Append(plain_entries, Strip(Join(pieces, "")))
    /\ i' = i + 1
    /\ UNCHANGED <<pc, entries, result, stdout, outfile, max_authors,
                   include_abstract, include_url, sorting, output, authors_str, ret>>

\* entry['ENTRYTYPE'] raises KeyError after the author, year and title pieces;
\* nothing catches it and the process ends
RenderFails ==
    /\ pc = "render"
    /\ i <= Len(entries)
    /\ "ENTRYTYPE" \notin DOMAIN entries[i]
    /\ entry_text' = <<AuthorClause(entries[i], max_authors), YearClause(entries[i]),
                       TitleClause(entries[i])>>
    /\ pc' = "error"
    /\ UNCHANGED <<entries, i, plain_entries, result, stdout, outfile, max_authors,
                   include_abstract, include_url, sorting, output, authors_str, ret>>

\* the loop is over: return "\n\n".join(plain_entries)
ReturnResult ==
    /\ pc = "render"
    /\ i > Len(entries)
    /\ result' = Join(plain_entries, "\n\n")
    /\ pc' = "output"
    /\ UNCHANGED <<entries, i, entry_text, plain_entries, stdout, outfile, max_authors,
                   include_abstract, include_url, sorting, output, authors_str, ret>>

\* if args.output: write the result to the file and print the confirmation
WriteOutput ==
    /\ pc = "output"
    /\ output # <<>>
    /\ outfile' = <<result>>
    /\ stdout' = Append(stdout, "Converted bibliography written to " \o output[1])
    /\ pc' = "done"
    /\ UNCHANGED <<entries, i, entry_text, plain_entries, result, max_authors,
                   include_abstract, include_url, sorting, output, authors_str, ret>>

\* else: print(result)
PrintResult ==
    /\ pc = "output"
    /\ output = <<>>
    /\ stdout' = Append(stdout, result)
    /\ pc' = "done"
    /\ UNCHANGED <<entries, i, entry_text, plain_entries, result, outfile, max_authors,
                   include_abstract, include_url, sorting, output, authors_str, ret>>

Next == RenderEntry \/ RenderFails \/ ReturnResult \/ WriteOutput \/ PrintResult

-----------------------------------------------------------------------------
(* the inputs *)

\* the default of --max-authors
DefaultMaxAuthors == 3

\* a record of the rich set has at most this many fields besides its type
MaxFields == 3

\* a batch has at most this many records
MaxEntries == 3

\* the fields read for a record of every type: by the author, year and title
\* clauses, by extract_arxiv_info, by the URL clause and by the abstract clause
CommonFields ==
    {"author", "editor", "organization", "institution", "publisher", "year", "title",
     "journal", "note", "howpublished", "url", "doi", "abstract"}

\* the fields bibtex_to_plain reads for a record of the given type; a field it
\* never reads for the type cannot change the paragraph and is left out
ReadFields(type) ==
    CommonFields \cup
        (CASE Lower(type) = "article" -> {"volume", "number", "pages"}
           [] Lower(type) \in {"inproceedings", "conference", "proceedings"} -> {"booktitle"}
           [] Lower(type) \in {"book", "incollection"} -> {"address"}
           [] Lower(type) = "software" -> {"version"}
           [] OTHER -> {})

FieldValues(field) ==
    CASE field = "author"       -> {"", "A and B"}
      [] field = "editor"       -> {"", "E"}
      [] field = "organization" -> {"", "ACME"}
      [] field = "institution"  -> {"MIT"}
      [] field = "publisher"    -> {"Pub"}
      [] field = "howpublished" -> {"How"}
      [] field = "note"         -> {"Note"}
      [] field = "url"          -> {"http://x.org/a"}
      [] field = "doi"          -> {"10.1/z"}
      [] field = "version"      -> {"", "2.0"}
      [] field = "title"        -> {"T", "My url"}
      [] field = "year"         -> {"1999"}
      [] field = "journal"      -> {"J", "arXiv:2301.01234"}
      [] field = "volume"       -> {"1"}
      [] field = "number"       -> {"2"}
      [] field = "pages"        -> {"3--4"}
      [] field = "booktitle"    -> {"Proc"}
      [] field = "address"      -> {"Addr"}
      [] field = "abstract"     -> {"Abs"}

TypeTags ==
    {"article", "inproceedings", "techreport", "unpublished", "book", "software",
     "dataset", "online", "report", "MISC"}

\* the subsets of S with at most n elements
RECURSIVE SubsetsUpTo(_, _)
SubsetsUpTo(S, n) ==
    IF n = 0 \/ S = {} THEN {{}}
    ELSE LET x == CHOOSE x \in S : TRUE
         IN SubsetsUpTo(S \ {x}, n)
            \cup {T \cup {x} : T \in SubsetsUpTo(S \ {x}, n - 1)}

\* the records whose fields are exactly F, each with one of its values
RECURSIVE RecordsOver(_)
RecordsOver(F) ==
    IF F = {} THEN {<<>>}
    ELSE LET f == CHOOSE f \in F : TRUE
         IN {(f :> v) @@ r : v \in FieldValues(f), r \in RecordsOver(F \ {f})}

\* the records of every type with at most MaxFields of the fields read for it
RichRecords ==
    UNION {{("ENTRYTYPE" :> t) @@ r :
               r \in UNION {RecordsOver(F) : F \in SubsetsUpTo(ReadFields(t), MaxFields)}}
           : t \in TypeTags}

\* small records: a year, with or without a title, with or without the type
BatchRecords ==
    LET S == {("year" :> y) @@ r : y \in {"1999", "2001"},
                                   r \in {<<>>, "title" :> "T"}}
    IN S \cup {("ENTRYTYPE" :> "book") @@ r : r \in S}

\* the sequences over S of length at most n
RECURSIVE SeqsUpTo(_, _)
SeqsUpTo(S, n) ==
    IF n = 0 THEN {<<>>}
    ELSE LET shorter == SeqsUpTo(S, n - 1)
         IN shorter \cup {Append(q, x) : q \in {r \in shorter : Len(r) = n - 1}, x \in S}

\* the state when the loop of bibtex_to_plain starts
Loaded ==
    /\ pc = "render"
    /\ i = 1
    /\ entry_text = <<>>
    /\ plain_entries = <<>>
    /\ result = ""
    /\ stdout = <<>>
    /\ outfile = <<>>
    /\ authors_str = ""
    /\ ret = <<>>

\* a batch of small records under every --sorting and with or without --output
InitBatch ==
    /\ entries \in SeqsUpTo(BatchRecords, MaxEntries)
    /\ max_authors = DefaultMaxAuthors
    /\ include_abstract = FALSE
    /\ include_url = FALSE
    /\ sorting \in {"none", "year", "author"}
    /\ output \in {<<>>, <<"out.txt">>}
    /\ Loaded

\* one record of the rich set
InitRich ==
    /\ entries \in {<<e>> : e \in RichRecords}
    /\ max_authors = DefaultMaxAuthors
    /\ include_abstract = TRUE
    /\ include_url \in BOOLEAN
    /\ sorting = "none"
    /\ output = <<>>
    /\ Loaded

Init == InitBatch \/ InitRich

Spec == Init /\ [][Next]_vars

-----------------------------------------------------------------------------
(* direct calls of format_authors and of extract_arxiv_info *)

\* an author field is at most this many names, joined by " and "
MaxNames == 4

\* --max-authors ranges from -MaxAuthorsBelowZero to MaxAuthorsAboveZero
MaxAuthorsBelowZero == 2
MaxAuthorsAboveZero == 4

\* a record given to extract_arxiv_info has at most this many of the scanned fields
MaxArxivFields == 2

NameTexts == {"", "A", "B {C}", " D ", "and"}

RawAuthors == {Join(q, " and ") : q \in SeqsUpTo(NameTexts, MaxNames)}

ArxivTexts ==
    {"", "Nature", "Preprint", "arXiv:2301.01234", "abs/2301.01234",
     "http://arxiv.org/abs/1.2", "ARXIV/12.5", "ar{X}iv 2301", "arXiv:12.x",
     "abs/1.2 arXiv:3.4"}

RECURSIVE ArxivRecordsOver(_)
ArxivRecordsOver(F) ==
    IF F = {} THEN {<<>>}
    ELSE LET f == CHOOSE f \in F : TRUE
         IN {(f :> v) @@ r : v \in ArxivTexts, r \in ArxivRecordsOver(F \ {f})}

ArxivRecords ==
    UNION {ArxivRecordsOver(F) :
              F \in SubsetsUpTo({arxiv_fields[k] : k \in 1..Len(arxiv_fields)},
                                MaxArxivFields)}

\* no run: only the callee's arguments and its return value matter
NoRun ==
    /\ i = 1
    /\ entry_text = <<>>
    /\ plain_entries = <<>>
    /\ result = ""
    /\ stdout = <<>>
    /\ outfile = <<>>
    /\ include_abstract = FALSE
    /\ include_url = FALSE
    /\ sorting = "none"
    /\ output = <<>>
    /\ ret = <<>>

InitAuthors ==
    /\ pc = "format_authors"
    /\ authors_str \in RawAuthors
    /\ \E k \in 0..(MaxAuthorsAboveZero + MaxAuthorsBelowZero) :
           max_authors = MaxAuthorsAboveZero - k
    /\ entries = <<>>
    /\ NoRun

CallFormatAuthors ==
    /\ pc = "format_authors"
    /\ ret' = format_authors(authors_str, max_authors)
    /\ pc' = "returned"
    /\ UNCHANGED <<entries, i, entry_text, plain_entries, result, stdout, outfile,
                   max_authors, include_abstract, include_url, sorting, output,
                   authors_str>>

SpecAuthors == InitAuthors /\ [][CallFormatAuthors]_vars

InitArxiv ==
    /\ pc = "extract_arxiv_info"
    /\ entries \in {<<e>> : e \in ArxivRecords}
    /\ max_authors = DefaultMaxAuthors
    /\ authors_str = ""
    /\ NoRun

CallExtractArxivInfo ==
    /\ pc = "extract_arxiv_info"
    /\ ret' = extract_arxiv_info(entries[1])
    /\ pc' = "returned"
    /\ UNCHANGED <<entries, i, entry_text, plain_entries, result, stdout, outfile,
                   max_authors, include_abstract, include_url, sorting, output,
                   authors_str>>

SpecArxiv == InitArxiv /\ [][CallExtractArxivInfo]_vars

-----------------------------------------------------------------------------
(* The claims about format_authors, under SpecAuthors *)

\* the list L of a raw author field: the names between " and ", trimmed, the
\* empty ones discarded
NameList(raw) == NonEmpty(StripAll(Split(clean_latex(raw), " and ")))

\* the first n names of L, none when n <= 0
FirstNames(L, n) == IF n <= 0 THEN <<>> ELSE SubSeq(L, 1, IF n < Len(L) THEN n ELSE Len(L))

\* L without its last n names
WithoutLast(L, n) == IF n >= Len(L) THEN <<>> ELSE SubSeq(L, 1, Len(L) - n)

\* C1 as stated: for every non-empty raw with name list L the result is L joined
\* with ", " when len(L) <= max_authors, and otherwise the first max_authors - 1
\* names of L joined with ", " followed by ", et al."
C1_AsStated ==
    (pc = "returned" /\ authors_str # "") =>
        LET L == NameList(authors_str)
        IN ret = IF Len(L) <= max_authors THEN Join(L, ", ")
                 ELSE Join(FirstNames(L, max_authors - 1), ", ") \o ", et al."

\* C1 amended: for every non-empty raw with name list L the result is
\* "Unknown Author" when L is empty; L joined with ", " when L is not empty and
\* len(L) <= max_authors; and otherwise the names L[:max_authors - 1] joined with
\* ", " followed by ", et al.", L[:max_authors - 1] being the first
\* max_authors - 1 names when max_authors >= 1 and L without its last
\* 1 - max_authors names when max_authors <= 0.  For max_authors = 3,
\* "A and B and C and D" gives "A, B, et al." and "A and B" gives "A, B".
C1_FormatAuthors ==
    /\ (pc = "returned" /\ authors_str # "") =>
           LET L == NameList(authors_str)
               shown == IF max_authors >= 1 THEN FirstNames(L, max_authors - 1)
                        ELSE WithoutLast(L, 1 - max_authors)
           IN ret = IF L = <<>> THEN "Unknown Author"
                    ELSE IF Len(L) <= max_authors THEN Join(L, ", ")
                    ELSE Join(shown, ", ") \o ", et al."
    /\ (pc = "returned" /\ max_authors = 3) =>
           /\ authors_str = "A and B {C} and  D  and and" => ret = "A, B C, et al."
           /\ authors_str = "A and B {C}" => ret = "A, B C"

\* C1 witness: a list of four names was cut to two names and the suffix
C1_Witness ==
    /\ pc = "returned"
    /\ max_authors = 3
    /\ Len(NameList(authors_str)) = 4
    /\ ret = "A, B C, et al."

\* C8 as stated: with max_authors <= 1 and an author list longer than
\* max_authors, the result shows no name of the input and ends with "et al."
C8_AsStated ==
    (pc = "returned" /\ max_authors <= 1) =>
        LET L == NameList(authors_str)
        IN (L # <<>> /\ Len(L) > max_authors) =>
               /\ EndsWith(ret, "et al.")
               /\ \A k \in 1..Len(L) : ~Contains(ret, L[k])

-----------------------------------------------------------------------------
(* The claim about extract_arxiv_info, under SpecArxiv *)

\* the text of a scanned field, normalized and lowercased; "" for an absent field
ScannedText(entry, field) ==
    IF field \in DOMAIN entry THEN Lower(clean_latex(entry[field])) ELSE ""

ScannedFields == {"journal", "note", "publisher", "howpublished", "url", "doi"}

\* the text mentions arxiv or preprint
Mentions(text) ==
    \E k \in 1..Len(text) :
        \/ (k + 4 <= Len(text) /\ SubSeq(text, k, k + 4) = "arxiv")
        \/ (k + 7 <= Len(text) /\ SubSeq(text, k, k + 7) = "preprint")

\* the characters k..m of text are all digits, and there is at least one
AllDigits(text, k, m) ==
    /\ k <= m
    /\ m <= Len(text)
    /\ \A j \in k..m : SubSeq(text, j, j) \in {"0", "1", "2", "3", "4", "5", "6", "7", "8", "9"}

\* text holds arxiv:<id>, arxiv/<id> or abs/<id>, <id> = digits, dot, digits
HoldsId(text) ==
    \E p \in {"arxiv:", "arxiv/", "abs/"} :
        \E k \in 1..Len(text) :
            /\ k + Len(p) - 1 <= Len(text)
            /\ SubSeq(text, k, k + Len(p) - 1) = p
            /\ \E m \in (k + Len(p))..Len(text) :
                   /\ AllDigits(text, k + Len(p), m)
                   /\ m + 2 <= Len(text)
                   /\ SubSeq(text, m + 1, m + 1) = "."
                   /\ AllDigits(text, m + 2, m + 2)

\* C2 as stated: is_preprint is true if any scanned field contains "arxiv" or
\* "preprint", and whenever any scanned field contains text matching
\* arxiv:<id>, arxiv/<id> or abs/<id> an identifier is returned
C2_AsStated ==
    pc = "returned" =>
        /\ (\E f \in ScannedFields : Mentions(ScannedText(entries[1], f))) => ret[1]
        /\ (\E f \in ScannedFields : HoldsId(ScannedText(entries[1], f))) => ret[2] # <<>>

\* C2 amended: is_preprint is true if any scanned field contains "arxiv" or
\* "preprint" (case-insensitively), and whenever a scanned field that itself
\* contains "arxiv" or "preprint" contains text matching arxiv:<id>, arxiv/<id>
\* or abs/<id>, an identifier is returned; the identifier is absent only when no
\* such field contains a match.  A journal field "arXiv:2301.01234" alone yields
\* is_preprint = true and the identifier "2301.01234".
C2_DetectPreprint ==
    pc = "returned" =>
        /\ (\E f \in ScannedFields : Mentions(ScannedText(entries[1], f))) => ret[1]
        /\ (\E f \in ScannedFields :
               /\ Mentions(ScannedText(entries[1], f))
               /\ HoldsId(ScannedText(entries[1], f))) => ret[2] # <<>>
        /\ entries[1] = ("journal" :> "arXiv:2301.01234") => ret = <<TRUE, <<"2301.01234">>>>

\* C2 witness: a field that mentions arxiv and holds abs/<id> gave the identifier,
\* next to a field that holds abs/<id> but mentions neither word
C2_Witness ==
    /\ pc = "returned"
    /\ DOMAIN entries[1] = {"journal", "url"}
    /\ entries[1]["journal"] = "abs/2301.01234"
    /\ entries[1]["url"] = "http://arxiv.org/abs/1.2"
    /\ ret = <<TRUE, <<"1.2">>>>

-----------------------------------------------------------------------------
(* The claims about the renderer's clauses, under Spec *)

\* an iteration has appended its pieces: all seven, or the first three when the
\* entry has no ENTRYTYPE
HasPieces == entry_text # <<>>

\* the entry the pieces of entry_text were made from
PieceEntry == IF pc = "error" THEN entries[i] ELSE entries[i - 1]

OrgFields == <<"organization", "institution", "publisher">>

\* the first field of OrgFields the record has; some field of them is present
FirstOrg(e) ==
    OrgFields[CHOOSE k \in 1..3 :
                  /\ OrgFields[k] \in DOMAIN e
                  /\ \A j \in 1..(k - 1) : OrgFields[j] \notin DOMAIN e]

HasOrg(e) == \E k \in 1..3 : OrgFields[k] \in DOMAIN e

\* C7 as stated: the author clause is format_authors(author) + ". " if author is
\* present; else format_authors(editor) + " (Eds.). " if editor is present; else
\* the normalized value of the first present field among organization,
\* institution, publisher + ". "; and it is "Unknown Author. " if and only if
\* none of the five fields yields a name
C7_AsStated ==
    HasPieces =>
        LET e == PieceEntry
            yields == \/ \E f \in {"author", "editor"} :
                             f \in DOMAIN e /\ NameList(e[f]) # <<>>
                      \/ \E k \in 1..3 :
                             OrgFields[k] \in DOMAIN e /\ clean_latex(e[OrgFields[k]]) # ""
        IN /\ "author" \in DOMAIN e =>
                  entry_text[1] = format_authors(e["author"], max_authors) \o ". "
           /\ ("author" \notin DOMAIN e /\ "editor" \in DOMAIN e) =>
                  entry_text[1] = format_authors(e["editor"], max_authors) \o " (Eds.). "
           /\ ("author" \notin DOMAIN e /\ "editor" \notin DOMAIN e /\ HasOrg(e)) =>
                  entry_text[1] = clean_latex(e[FirstOrg(e)]) \o ". "
           /\ entry_text[1] = "Unknown Author. " <=> ~yields

\* C7 amended: the author clause is format_authors(author) + ". " if author is
\* present; else format_authors(editor) + " (Eds.). " if editor is present; else,
\* if the first present field among organization, institution, publisher (in
\* that order) has a non-empty value, the normalized value of that field + ". ";
\* and otherwise (none of the three present, or the first present one empty)
\* it is exactly "Unknown Author. ", in particular whenever none of author,
\* editor, organization, institution, publisher is present
C7_AuthorClause ==
    HasPieces =>
        LET e == PieceEntry
        IN /\ "author" \in DOMAIN e =>
                  entry_text[1] = format_authors(e["author"], max_authors) \o ". "
           /\ ("author" \notin DOMAIN e /\ "editor" \in DOMAIN e) =>
                  entry_text[1] = format_authors(e["editor"], max_authors) \o " (Eds.). "
           /\ ("author" \notin DOMAIN e /\ "editor" \notin DOMAIN e /\ HasOrg(e)) =>
                  entry_text[1] = IF e[FirstOrg(e)] # ""
                                  THEN clean_latex(e[FirstOrg(e)]) \o ". "
                                  ELSE "Unknown Author. "
           /\ DOMAIN e \cap {"author", "editor", "organization", "institution",
                             "publisher"} = {} =>
                  entry_text[1] = "Unknown Author. "

\* C7 witness: with no author and no editor, an empty organization hid the
\* institution and the clause is "Unknown Author. "
C7_Witness ==
    /\ HasPieces
    /\ DOMAIN PieceEntry = {"ENTRYTYPE", "organization", "institution"}
    /\ PieceEntry["organization"] = ""
    /\ entry_text[1] = "Unknown Author. "

\* the type-specific body of the entry already holds its URL or DOI
BodyEmbedsUrl(entry) ==
    LET type == Lower(entry["ENTRYTYPE"])
    IN \/ type = "software" /\ ("url" \in DOMAIN entry \/ "doi" \in DOMAIN entry)
       \/ type = "online" /\ "url" \in DOMAIN entry

\* C3 as stated: "URL: <url> " (or, with no url and a doi, "DOI: <doi> ") is
\* appended if and only if include_url is requested and the type-specific body
\* did not already embed the record's URL/DOI
C3_AsStated ==
    Len(entry_text) = 7 =>
        LET e == PieceEntry
        IN entry_text[6] =
               IF include_url /\ ~BodyEmbedsUrl(e)
               THEN IF "url" \in DOMAIN e THEN "URL: " \o clean_latex(e["url"]) \o " "
                    ELSE IF "doi" \in DOMAIN e THEN "DOI: " \o clean_latex(e["doi"]) \o " "
                    ELSE ""
               ELSE ""

\* what follows the version part of a software body: the URL or else the DOI,
\* then the note
AfterVersion(e) ==
    (IF "url" \in DOMAIN e THEN "Available at: " \o clean_latex(e["url"]) \o ". "
     ELSE IF "doi" \in DOMAIN e THEN "DOI: " \o clean_latex(e["doi"]) \o ". "
     ELSE "")
    \o (IF "note" \in DOMAIN e THEN clean_latex(e["note"]) \o ". " ELSE "")

IsSoftware(e) == "ENTRYTYPE" \in DOMAIN e /\ Lower(e["ENTRYTYPE"]) = "software"

\* C9 as stated: the software body is "[Software] " + version tag + ". ", the tag
\* being "v<version>" if a version field is present and empty otherwise, followed
\* by the URL or else the DOI, then the note
C9_AsStated ==
    (Len(entry_text) = 7 /\ IsSoftware(PieceEntry)) =>
        LET e == PieceEntry
        IN entry_text[4] =
               "[Software] "
               \o (IF "version" \in DOMAIN e THEN "v" \o e["version"] ELSE "")
               \o ". " \o AfterVersion(e)

\* C9 amended: the software body is "[Software] v<version>. " if a version field
\* is present and "[Software]. " otherwise; followed by "Available at: <url>. "
\* if url is present, else "DOI: <doi>. " if doi is present; followed by the note
\* sentence if note is present (version = "2.0" with no url/doi/note gives
\* exactly "[Software] v2.0. ")
C9_SoftwareBody ==
    (Len(entry_text) = 7 /\ IsSoftware(PieceEntry)) =>
        LET e == PieceEntry
        IN /\ entry_text[4] =
                  (IF "version" \in DOMAIN e
                   THEN "[Software] v" \o e["version"] \o ". "
                   ELSE "[Software]. ")
                  \o AfterVersion(e)
           /\ (/\ "version" \in DOMAIN e
               /\ e["version"] = "2.0"
               /\ DOMAIN e \cap {"url", "doi", "note"} = {})
              => entry_text[4] = "[Software] v2.0. "

\* C9 witness: a software record with a version and a doi but no url was rendered
C9_Witness ==
    /\ Len(entry_text) = 7
    /\ IsSoftware(PieceEntry)
    /\ entry_text[4] = "[Software] v2.0. DOI: 10.1/z. "

KnownTypes ==
    {"article", "inproceedings", "conference", "proceedings", "techreport",
     "unpublished", "book", "incollection", "software", "dataset", "online"}

FallbackFields == <<"publisher", "institution", "organization", "howpublished", "note">>

IsOtherType(e) == "ENTRYTYPE" \in DOMAIN e /\ Lower(e["ENTRYTYPE"]) \notin KnownTypes

\* C10: for a type outside the known set the body is "[<Capitalized type>]. "
\* followed by the sentence of exactly one field, the first present among
\* publisher, institution, organization, howpublished, note, and by nothing when
\* none is present (type "report" with only organization = "ACME" gives
\* "[Report]. ACME. ")
C10_FallbackBody ==
    (Len(entry_text) = 7 /\ IsOtherType(PieceEntry)) =>
        LET e == PieceEntry
            head == "[" \o Capitalize(Lower(e["ENTRYTYPE"])) \o "]. "
            present == {k \in 1..Len(FallbackFields) : FallbackFields[k] \in DOMAIN e}
        IN /\ present = {} => entry_text[4] = head
           /\ \A k \in present :
                  (\A j \in present : k <= j) =>
                      entry_text[4] = head \o clean_latex(e[FallbackFields[k]]) \o ". "
           /\ (e["ENTRYTYPE"] = "report" /\ DOMAIN e = {"ENTRYTYPE", "organization"}
               /\ e["organization"] = "ACME")
              => entry_text[4] = "[Report]. ACME. "

\* C10 witness: a record of another type with two of the listed fields was
\* rendered with the first of them only
C10_Witness ==
    /\ Len(entry_text) = 7
    /\ PieceEntry["ENTRYTYPE"] = "MISC"
    /\ {"institution", "note"} \subseteq DOMAIN PieceEntry
    /\ entry_text[4] = "[Misc]. MIT. "

-----------------------------------------------------------------------------
(* The claims about the batch, under Spec *)

\* the paragraph of a record that has its type
Paragraph(e) ==
    Strip(Join(EntryPieces(e, max_authors, include_abstract, include_url), ""))

AllTyped == \A k \in 1..Len(entries) : "ENTRYTYPE" \in DOMAIN entries[k]

\* what the run has emitted to its sink: the printed result or the file's text
Emitted == IF output = <<>> THEN stdout ELSE outfile

\* C5: when every record has a type tag and sorting = none, there is exactly one
\* non-empty paragraph per record, in the order of the records: the k-th
\* paragraph is the rendering of the k-th record, and the text that is emitted is
\* these paragraphs, as many as there are records
C5_OneParagraphPerRecord ==
    (AllTyped /\ sorting = "none") =>
        /\ Len(plain_entries) = i - 1
        /\ \A k \in 1..Len(plain_entries) :
               plain_entries[k] # "" /\ plain_entries[k] = Paragraph(entries[k])
        /\ pc \in {"output", "done"} =>
               /\ Len(plain_entries) = Len(entries)
               /\ result = Join(plain_entries, "\n\n")
        /\ pc = "done" => Emitted = <<result>>

\* C5 witness: a batch of three records, the first two different, was emitted
C5_Witness ==
    /\ pc = "done"
    /\ AllTyped
    /\ sorting = "none"
    /\ Len(entries) = 3
    /\ plain_entries[1] # plain_entries[2]

\* C6: if a record of the input has no type tag, the run ends with an error and
\* nothing is emitted: nothing is printed and the --output file is not opened
C6_AllOrNothing ==
    ~AllTyped =>
        /\ pc \in {"render", "error"}
        /\ stdout = <<>>
        /\ outfile = <<>>
        /\ (pc = "render" => i <= Len(entries))

\* C6 witness: the run failed on its third record, after rendering two, with an
\* --output file given
C6_Witness ==
    /\ pc = "error"
    /\ Len(plain_entries) = 2
    /\ output # <<>>
    /\ outfile = <<>>
    /\ stdout = <<>>

\* the number a string of digits writes
RECURSIVE Number(_)
Number(s) ==
    IF s = "" THEN 0
    ELSE 10 * Number(SubSeq(s, 1, Len(s) - 1))
         + (CHOOSE d \in 0..9 : SubSeq("0123456789", d + 1, d + 1) = SubSeq(s, Len(s), Len(s)))

\* p orders 1..n by year, two records of the same year keeping their order
StableByYear(p, n) ==
    /\ \A a, b \in 1..n : a # b => p[a] # p[b]
    /\ \A a, b \in 1..n :
           a < b => LET ya == Number(entries[p[a]]["year"])
                        yb == Number(entries[p[b]]["year"])
                    IN ya < yb \/ (ya = yb /\ p[a] < p[b])

\* C4 as stated: with --sorting year the records are reordered by year before
\* rendering, so the paragraphs appear in year order, records of the same year
\* keeping their input order
C4_AsStated ==
    (pc \in {"output", "done"} /\ sorting = "year") =>
        LET n == Len(entries)
        IN \E p \in [1..n -> 1..n] :
               /\ StableByYear(p, n)
               /\ plain_entries = [k \in 1..n |-> Paragraph(entries[p[k]])]

=============================================================================
